---- MODULE Spec2Model ----
(***************************************************************************)
(* Model of the 36-byte splat record tools: converter.py (PLY -> .dat),    *)
(* downsample_dat.py (streaming filter over a .dat) and prepare_demo.py /  *)
(* validate_dat (record count of an existing .dat).  Files are sequences   *)
(* of bytes (0..255); every program is a state machine over the variables  *)
(* below and `prog` says which program a behaviour runs.                   *)
(***************************************************************************)
EXTENDS Integers, Sequences, FiniteSets, TLC

VARIABLES
    prog,            \* which program runs: "downsample", "iter", "convert", "validate", "prepare"
    input,           \* bytes of the existing .dat file a program reads
    \* iter_records (generator) -------------------------------------------
    chunk_bytes,     \* the chunk byte budget (argument, then truncated)
    fpos,            \* offset of the open input file
    chunk,           \* bytes returned by the last f.read
    idx,             \* i of `for i in range(m)`
    cur,             \* the slice handed out by the last yield
    ipc,             \* "start", "read", "for", "yield", "end", "closed", "idle"
    yielded,         \* what a plain consumer (list(iter_records(..))) collected
    \* downsample ----------------------------------------------------------
    min_span, stride, limit,
    out,             \* bytes of the output file
    kept, total,     \* the two counters of downsample
    dpc,             \* "loop", "returned", "idle"
    eligible,        \* <<position, record>> of every record that got past the stride test
    keptAt,          \* positions (values of total) of the records written, in order
    \* convert -------------------------------------------------------------
    ply_files,       \* sequence of vertex counts, one per resolved input file
    frame_step, default_opacity, default_scale, rotation,
    cpc,             \* "main", "file", "vertex", "done", "nofiles", "error", "idle"
    fidx,            \* index (0-based) of the file whose generator runs
    vidx,            \* i of `for i in range(num)` in that generator
    opac,            \* the per-file opacity array's value (np.full(.., dtype=uint8))
    rot_bytes,       \* normalize_quaternion_to_bytes(rotation) of the file
    dat,             \* bytes of the .dat written by write_dat
    count,           \* write_dat's count
    \* validate_dat / count_records ---------------------------------------
    spc,             \* "call", "done", "raised", "idle"
    warned,          \* validate_dat printed the size warning
    reported,        \* the record count printed / returned (None before)
    head_recs,       \* the records validate_dat decoded and printed
    config_cap       \* TOTAL_CAP written by prepare_demo's write_config (None: not written)

iterVars == <<chunk_bytes, fpos, chunk, idx, cur, ipc, yielded>>
dsVars   == <<min_span, stride, limit, out, kept, total, dpc, eligible, keptAt>>
cvVars   == <<ply_files, frame_step, default_opacity, default_scale, rotation,
              cpc, fidx, vidx, opac, rot_bytes, dat, count>>
sumVars  == <<spc, warned, reported, head_recs, config_cap>>
vars     == <<prog, input, iterVars, dsVars, cvVars, sumVars>>

\* Python's Optional[int]: None is the empty tuple, the integer n is <<n>>.
None    == <<>>
Some(n) == <<n>>

(***************************************************************************)
(* Bounds of the model.                                                    *)
(***************************************************************************)
MaxRecs  == 3      \* records in an existing .dat file
MaxFiles == 2      \* input .ply files of one conversion
MaxVerts == 2      \* vertices of one .ply file

(***************************************************************************)
(* The record format.                                                      *)
(***************************************************************************)
\* struct.calcsize("!HHfffBBBBfffBBBB")
FieldSizes == <<2, 2, 4, 4, 4, 1, 1, 1, 1, 4, 4, 4, 1, 1, 1, 1>>

RECURSIVE SumSeq(_)
SumSeq(s) == IF s = <<>> THEN 0 ELSE Head(s) + SumSeq(Tail(s))

RECORD_SIZE == SumSeq(FieldSizes)

DefaultChunkBytes == 4 * 1024 * 1024

Min(a, b) == IF a <= b THEN a ELSE b
Max(a, b) == IF a >= b THEN a ELSE b

RECURSIVE Concat(_)
Concat(ss) == IF ss = <<>> THEN <<>> ELSE Head(ss) \o Concat(Tail(ss))

\* Python slicing b[a:b] of a bytes object (0-based, end clamped).
Slice(b, from, to) == SubSeq(b, from + 1, Min(to, Len(b)))

\* struct 'H', big-endian: two bytes, most significant first.
PackH(v) == <<v \div 256, v % 256>>
\* struct 'f', big-endian IEEE-754 single, of the floats the model uses
\* (a float is written as the integer it equals).
PackF(x) ==
    CASE x = 0  -> <<0, 0, 0, 0>>
      [] x = 1  -> <<63, 128, 0, 0>>
      [] x = 2  -> <<64, 0, 0, 0>>
      [] x = 3  -> <<64, 64, 0, 0>>
      [] x = 4  -> <<64, 128, 0, 0>>
      [] x = -1 -> <<191, 128, 0, 0>>

\* struct.pack raises struct.error for an 'H' outside 0..65535 or a 'B'
\* outside 0..255.
PackRaises(rec) ==
    \/ rec.sf < 0 \/ rec.sf > 65535
    \/ rec.ef < 0 \/ rec.ef > 65535
    \/ \E k \in 1..3 : rec.rgb[k] < 0 \/ rec.rgb[k] > 255
    \/ rec.o < 0 \/ rec.o > 255
    \/ \E k \in 1..4 : rec.rot[k] < 0 \/ rec.rot[k] > 255

\* struct.pack(FMT_STR, *rec) for a tuple it accepts.
Pack(rec) ==
    PackH(rec.sf) \o PackH(rec.ef)
      \o PackF(rec.xyz[1]) \o PackF(rec.xyz[2]) \o PackF(rec.xyz[3])
      \o rec.rgb \o <<rec.o>>
      \o PackF(rec.scale[1]) \o PackF(rec.scale[2]) \o PackF(rec.scale[3])
      \o rec.rot

\* struct.unpack_from('!HH', rec, 0)
UnpackHH(rec) == <<rec[1] * 256 + rec[2], rec[3] * 256 + rec[4]>>

\* The complete records of a file, by position.
RecordsOf(bytes) ==
    [k \in 1..(Len(bytes) \div RECORD_SIZE) |->
        SubSeq(bytes, RECORD_SIZE * (k - 1) + 1, RECORD_SIZE * k)]

(***************************************************************************)
(* Existing .dat files: up to MaxRecs records with their own frame ranges  *)
(* (record k carries k in its red channel), followed by 0 or 7 stray bytes.*)
(***************************************************************************)
FramePairs == {<<0, 4>>, <<256, 261>>, <<300, 0>>}
Tails      == {<<>>, <<255, 255, 255, 255, 255, 255, 255>>}

DatRecord(k, fp) ==
    Pack([sf |-> fp[1], ef |-> fp[2], xyz |-> <<0, 0, 0>>, rgb |-> <<k, 0, 0>>,
          o |-> 255, scale |-> <<1, 1, 1>>, rot |-> <<255, 128, 128, 128>>])

DatFiles ==
    UNION { { Concat([k \in 1..n |-> DatRecord(k, f[k])]) \o t :
                f \in [1..n -> FramePairs], t \in Tails } : n \in 0..MaxRecs }

(***************************************************************************)
(* iter_records: the generator, one action per stretch of code between two *)
(* points where it reads the file or hands a record to its consumer.       *)
(***************************************************************************)
\* chunk_bytes -= (chunk_bytes % RECORD_SIZE)
AlignChunk(n) == n - (n % RECORD_SIZE)

\* f.read(n) of a buffered binary file at offset pos: n bytes, fewer at end
\* of file only; b'' for n = 0 and at end of file.
Read(file, pos, n) == SubSeq(file, pos + 1, Min(pos + n, Len(file)))

\* (mutation: m counts a trailing partial record too)
RecordsInChunkCeil(c) == (Len(c) + RECORD_SIZE - 1) \div RECORD_SIZE

\* m = len(chunk)//RECORD_SIZE
RecordsInChunk(c) == Len(c) \div RECORD_SIZE

IterStart ==
    /\ ipc = "start"
    /\ chunk_bytes' = AlignChunk(chunk_bytes)
    /\ fpos' = 0
    /\ ipc' = "read"
    /\ UNCHANGED <<chunk, idx, cur, yielded>>
    /\ UNCHANGED <<prog, input, dsVars, cvVars, sumVars>>

IterRead ==
    /\ ipc = "read"
    /\ LET c == Read(input, fpos, chunk_bytes) IN
        /\ chunk' = c
        /\ fpos' = fpos + Len(c)
        /\ idx' = 0
        /\ ipc' = IF c = <<>> THEN "end" ELSE "for"
    /\ UNCHANGED <<chunk_bytes, cur, yielded>>
    /\ UNCHANGED <<prog, input, dsVars, cvVars, sumVars>>

IterFor ==
    /\ ipc = "for"
    /\ IF idx < RecordsInChunk(chunk)
         THEN /\ cur' = Slice(chunk, idx * RECORD_SIZE, idx * RECORD_SIZE + RECORD_SIZE)
              /\ idx' = idx + 1
              /\ ipc' = "yield"
         ELSE /\ ipc' = "read"
              /\ UNCHANGED <<cur, idx>>
    /\ UNCHANGED <<chunk_bytes, fpos, chunk, yielded>>
    /\ UNCHANGED <<prog, input, dsVars, cvVars, sumVars>>

\* A consumer that only collects: list(iter_records(path, chunk_bytes)).
IterCollect ==
    /\ prog = "iter"
    /\ ipc = "yield"
    /\ yielded' = Append(yielded, cur)
    /\ ipc' = "for"
    /\ UNCHANGED <<chunk_bytes, fpos, chunk, idx, cur>>
    /\ UNCHANGED <<prog, input, dsVars, cvVars, sumVars>>

(***************************************************************************)
(* downsample: the body of `for rec in iter_records(input_path)`.          *)
(***************************************************************************)
\* (mutation: the stride test on the 0-based position)
StrideSkipZeroBased(t, s) == s > 1 /\ ((t - 1) % s) # 0

\* if stride > 1 and (total % stride) != 0: continue
StrideSkip(t, s) == s > 1 /\ (t % s) # 0

\* (mutation: a span equal to min_span is dropped as well)
SpanSkipStrict(sf, ef, ms) == (ef - sf) <= ms

\* if (ef - sf) < min_span: continue
SpanSkip(sf, ef, ms) == (ef - sf) < ms

\* if limit and kept >= limit: break      (None and 0 are falsy)
LimitReached(lim, k) == lim # None /\ lim[1] # 0 /\ k >= lim[1]

DsBody ==
    /\ prog = "downsample"
    /\ dpc = "loop"
    /\ ipc = "yield"
    /\ total' = total + 1
    /\ IF StrideSkip(total', stride)
         THEN /\ ipc' = "for"
              /\ UNCHANGED <<out, kept, dpc, eligible, keptAt>>
         ELSE /\ eligible' = eligible \cup {<<total', cur>>}
              /\ LET fr == UnpackHH(cur) IN
                   IF SpanSkip(fr[1], fr[2], min_span)
                     THEN /\ ipc' = "for"
                          /\ UNCHANGED <<out, kept, dpc, keptAt>>
                     ELSE /\ out' = out \o cur
                          /\ kept' = kept + 1
                          /\ keptAt' = Append(keptAt, total')
                          /\ IF LimitReached(limit, kept')
                               THEN dpc' = "returned" /\ ipc' = "closed"
                               ELSE dpc' = dpc /\ ipc' = "for"
    /\ UNCHANGED <<min_span, stride, limit>>
    /\ UNCHANGED <<chunk_bytes, fpos, chunk, idx, cur, yielded>>
    /\ UNCHANGED <<prog, input, cvVars, sumVars>>

\* The generator is exhausted: the for loop ends and downsample returns kept.
DsExhausted ==
    /\ prog = "downsample"
    /\ dpc = "loop"
    /\ ipc = "end"
    /\ dpc' = "returned"
    /\ UNCHANGED <<min_span, stride, limit, out, kept, total, eligible, keptAt>>
    /\ UNCHANGED <<prog, input, iterVars, cvVars, sumVars>>

(***************************************************************************)
(* converter.py: main builds one lazy generator per resolved .ply file and *)
(* write_dat drains them in file order, packing one record per vertex.     *)
(***************************************************************************)
\* read_vertices_colors: the arrays of a file without colour channels,
\* vertex j of file i at (i, j, 0), white.
Vertices(i, n) == [j \in 1..n |-> [xyz |-> <<i, j - 1, 0>>, rgb |-> <<255, 255, 255>>]]

\* start_frame = idx * frame_step; end_frame = start_frame
FrameOf(i, step) == i * step

\* math.sqrt of the squared norms the model uses (perfect squares).
ISqrt(n) == CHOOSE k \in 0..n : k * k = n

\* to_byte(c / length): int(val * 128 + 128), then max(0, min(255, b)).
ToByte(c, length) == Max(0, Min(255, (c * 128 + 128 * length) \div length))

\* normalize_quaternion_to_bytes(q)
NormalizeQuaternionToBytes(q) ==
    LET length == ISqrt(q[1] * q[1] + q[2] * q[2] + q[3] * q[3] + q[4] * q[4]) IN
    IF length = 0
      THEN <<ToByte(1, 1), ToByte(0, 1), ToByte(0, 1), ToByte(0, 1)>>
      ELSE [k \in 1..4 |-> ToByte(q[k], length)]

\* The tuple generate_records_for_file yields for vertex v of file i.
RecordTuple(i, v) ==
    [sf |-> FrameOf(i, frame_step), ef |-> FrameOf(i, frame_step),
     xyz |-> v.xyz, rgb |-> v.rgb, o |-> opac,
     scale |-> <<default_scale, default_scale, default_scale>>, rot |-> rot_bytes]

\* if not ply_files: print("No .ply files found."); return 2
ConvNoFiles ==
    /\ prog = "convert"
    /\ cpc = "main"
    /\ ply_files = <<>>
    /\ cpc' = "nofiles"
    /\ UNCHANGED <<ply_files, frame_step, default_opacity, default_scale, rotation,
                   fidx, vidx, opac, rot_bytes, dat, count>>
    /\ UNCHANGED <<prog, input, iterVars, dsVars, sumVars>>

\* main's loop creates the generators (none runs yet); write_dat writes
\* format.json and opens the output for writing.
ConvStart ==
    /\ prog = "convert"
    /\ cpc = "main"
    /\ ply_files # <<>>
    /\ cpc' = "file"
    /\ fidx' = 0
    /\ dat' = <<>>
    /\ count' = 0
    /\ UNCHANGED <<ply_files, frame_step, default_opacity, default_scale, rotation,
                   vidx, opac, rot_bytes>>
    /\ UNCHANGED <<prog, input, iterVars, dsVars, sumVars>>

\* chain_iters reaches the generator of file fidx, whose body runs up to its
\* for loop.  np.full(.., default_opacity, dtype=np.uint8) of a value
\* outside 0..255 raises OverflowError or wraps modulo 256, by NumPy version.
ConvEnterFile ==
    /\ prog = "convert"
    /\ cpc = "file"
    /\ fidx < Len(ply_files)
    /\ \/ /\ default_opacity \in 0..255
          /\ opac' = default_opacity
          /\ cpc' = "vertex"
       \/ /\ default_opacity \notin 0..255
          /\ opac' = default_opacity % 256
          /\ cpc' = "vertex"
       \/ /\ default_opacity \notin 0..255
          /\ opac' = opac
          /\ cpc' = "error"
    /\ rot_bytes' = NormalizeQuaternionToBytes(rotation)
    /\ vidx' = 0
    /\ UNCHANGED <<ply_files, frame_step, default_opacity, default_scale, rotation,
                   fidx, dat, count>>
    /\ UNCHANGED <<prog, input, iterVars, dsVars, sumVars>>

\* One turn of `for i in range(num)` and of write_dat's loop:
\* f.write(struct.pack(FMT_STR, *rec)); count += 1.
ConvVertex ==
    /\ prog = "convert"
    /\ cpc = "vertex"
    /\ IF vidx < ply_files[fidx + 1]
         THEN LET rec == RecordTuple(fidx, Vertices(fidx, ply_files[fidx + 1])[vidx + 1]) IN
              IF PackRaises(rec)
                THEN /\ cpc' = "error"
                     /\ UNCHANGED <<dat, count, vidx, fidx>>
                ELSE /\ dat' = dat \o Pack(rec)
                     /\ count' = count + 1
                     /\ vidx' = vidx + 1
                     /\ UNCHANGED <<cpc, fidx>>
         ELSE /\ fidx' = fidx + 1
              /\ cpc' = "file"
              /\ UNCHANGED <<dat, count, vidx>>
    /\ UNCHANGED <<ply_files, frame_step, default_opacity, default_scale, rotation,
                   opac, rot_bytes>>
    /\ UNCHANGED <<prog, input, iterVars, dsVars, sumVars>>

\* Every generator is exhausted: write_dat returns count, main returns 0.
ConvDone ==
    /\ prog = "convert"
    /\ cpc = "file"
    /\ fidx = Len(ply_files)
    /\ cpc' = "done"
    /\ UNCHANGED <<ply_files, frame_step, default_opacity, default_scale, rotation,
                   fidx, vidx, opac, rot_bytes, dat, count>>
    /\ UNCHANGED <<prog, input, iterVars, dsVars, sumVars>>

(***************************************************************************)
(* Record count of an existing file: validate_dat (converter.py) and       *)
(* prepare_demo.py's main with its count_records.                          *)
(***************************************************************************)
HEAD == 3

\* size % RECORD_SIZE != 0
SizeMismatch(size) == size % RECORD_SIZE # 0

\* (mutation: count_records never raises)
CountRecordsNeverRaises(size) == FALSE

\* count_records raises RuntimeError exactly on a size mismatch.
CountRecordsRaises(size) == SizeMismatch(size)

ValidateDat ==
    /\ prog = "validate"
    /\ spc = "call"
    /\ LET size  == Len(input)
           n     == size \div RECORD_SIZE
           datas == [i \in 1..Min(HEAD, n) |->
                       Read(input, (i - 1) * RECORD_SIZE, RECORD_SIZE)]
       IN /\ warned' = SizeMismatch(size)
          /\ reported' = Some(n)
          /\ head_recs' = datas
          \* struct.unpack(FMT_STR, data) raises unless len(data) == 36
          /\ spc' = IF \E i \in DOMAIN datas : Len(datas[i]) # RECORD_SIZE
                      THEN "raised" ELSE "done"
    /\ UNCHANGED config_cap
    /\ UNCHANGED <<prog, input, iterVars, dsVars, cvVars>>

\* prepare_demo.main: copy the file, count_records(dst), write_config.
PrepareDemo ==
    /\ prog = "prepare"
    /\ spc = "call"
    /\ LET size == Len(input) IN
         IF CountRecordsRaises(size)
           THEN /\ spc' = "raised"
                /\ UNCHANGED <<reported, config_cap>>
           ELSE /\ reported' = Some(size \div RECORD_SIZE)
                /\ config_cap' = Some(size \div RECORD_SIZE)
                /\ spc' = "done"
    /\ UNCHANGED <<warned, head_recs>>
    /\ UNCHANGED <<prog, input, iterVars, dsVars, cvVars>>

(***************************************************************************)
(* Initial states.                                                         *)
(***************************************************************************)
MinSpans == {-300, 0, 5}
Strides  == {0, 1, 2, 3}
Limits   == {None, Some(0), Some(1), Some(2)}
Budgets  == {0, 20, 36, 50, 72, DefaultChunkBytes}

IterIdle ==
    /\ chunk_bytes = 0 /\ fpos = 0 /\ chunk = <<>> /\ idx = 0 /\ cur = <<>>
    /\ ipc = "idle" /\ yielded = <<>>

IterFresh(budget) ==
    /\ chunk_bytes = budget /\ fpos = 0 /\ chunk = <<>> /\ idx = 0 /\ cur = <<>>
    /\ ipc = "start" /\ yielded = <<>>

DsIdle ==
    /\ min_span = 0 /\ stride = 0 /\ limit = None /\ out = <<>> /\ kept = 0
    /\ total = 0 /\ dpc = "idle" /\ eligible = {} /\ keptAt = <<>>

CvIdle ==
    /\ ply_files = <<>> /\ frame_step = 1 /\ default_opacity = 255
    /\ default_scale = 1 /\ rotation = <<1, 0, 0, 0>> /\ cpc = "idle"
    /\ fidx = 0 /\ vidx = 0 /\ opac = 255 /\ rot_bytes = <<>> /\ dat = <<>>
    /\ count = 0

SumIdle ==
    /\ spc = "idle" /\ warned = FALSE /\ reported = None /\ head_recs = <<>>
    /\ config_cap = None

\* downsample(input_path, output_path, min_span, stride, limit) up to the
\* for statement: the output is open and empty, both counters are 0, and
\* iter_records is called with its default chunk_bytes.
InitDownsample ==
    /\ prog = "downsample"
    /\ input \in DatFiles
    /\ IterFresh(DefaultChunkBytes)
    /\ min_span \in MinSpans /\ stride \in Strides /\ limit \in Limits
    /\ out = <<>> /\ kept = 0 /\ total = 0 /\ dpc = "loop"
    /\ eligible = {} /\ keptAt = <<>>
    /\ CvIdle /\ SumIdle

InitIter ==
    /\ prog = "iter"
    /\ input \in DatFiles
    /\ \E b \in Budgets : IterFresh(b)
    /\ DsIdle /\ CvIdle /\ SumIdle

FrameSteps == {1, 10, 65536, -1}
Opacities  == {200, 300}
Scales     == {1, 2}
Rotations  == {<<1, 0, 0, 0>>, <<0, 0, 0, 0>>, <<0, -3, 4, 0>>, <<-2, 0, 0, 0>>}

PlyLists == UNION { [1..n -> 0..MaxVerts] : n \in 0..MaxFiles }

InitConvert ==
    /\ prog = "convert"
    /\ input = <<>>
    /\ ply_files \in PlyLists
    /\ frame_step \in FrameSteps
    /\ default_opacity \in Opacities
    /\ default_scale \in Scales
    /\ rotation \in Rotations
    /\ cpc = "main" /\ fidx = 0 /\ vidx = 0 /\ opac = 255 /\ rot_bytes = <<>>
    /\ dat = <<>> /\ count = 0
    /\ IterIdle /\ DsIdle /\ SumIdle

InitSummary ==
    /\ prog \in {"validate", "prepare"}
    /\ input \in DatFiles
    /\ spc = "call" /\ warned = FALSE /\ reported = None /\ head_recs = <<>>
    /\ config_cap = None
    /\ IterIdle /\ DsIdle /\ CvIdle

Init == InitDownsample \/ InitIter \/ InitConvert \/ InitSummary

Next ==
    \/ IterStart \/ IterRead \/ IterFor \/ IterCollect
    \/ DsBody \/ DsExhausted
    \/ ConvNoFiles \/ ConvStart \/ ConvEnterFile \/ ConvVertex \/ ConvDone
    \/ ValidateDat \/ PrepareDemo

Spec == Init /\ [][Next]_vars

(***************************************************************************)
(* Properties.                                                             *)
(***************************************************************************)
RECURSIVE IsSubseq(_, _)
IsSubseq(a, b) ==
    IF a = <<>> THEN TRUE
    ELSE IF b = <<>> THEN FALSE
    ELSE IF Head(a) = Head(b) THEN IsSubseq(Tail(a), Tail(b))
    ELSE IsSubseq(a, Tail(b))

Range(f) == {f[x] : x \in DOMAIN f}

\* end_frame - start_frame of a record, from its first four bytes.
Span(r) == (r[3] * 256 + r[4]) - (r[1] * 256 + r[2])

InRecs  == RecordsOf(input)
OutRecs == RecordsOf(out)

\* C1: the records downsample wrote are an order-preserving subsequence of
\* the input records, and there are at most min(limit, number of input
\* records) of them (at most the number of input records without a limit).
C1_SubsequenceWithinCap ==
    prog = "downsample" =>
        /\ IsSubseq(OutRecs, InRecs)
        /\ Len(out) = RECORD_SIZE * Len(OutRecs)
        /\ Len(OutRecs) <= Len(InRecs)
        /\ limit # None => Len(OutRecs) <= Min(limit[1], Len(InRecs))

\* C2: once the count of retained records has reached limit, downsample
\* takes no further record from the input (no read, no increment of the
\* position counter) and writes nothing more.
C2_StopsAtLimit ==
    [][(prog = "downsample" /\ limit # None /\ kept >= limit[1])
          => (fpos' = fpos /\ total' = total /\ out' = out)]_vars

\* Records iter_records has handed to its consumer so far.
Handed == ((fpos - Len(chunk)) \div RECORD_SIZE) + idx

C4_SpanFilter ==
    prog = "downsample" =>
        /\ \A k \in DOMAIN OutRecs : Span(OutRecs[k]) >= min_span
        /\ Len(keptAt) = kept /\ Len(OutRecs) = kept
        /\ \A k \in DOMAIN keptAt : OutRecs[k] = InRecs[keptAt[k]]
        /\ \A e \in eligible : e[1] \notin Range(keptAt) => Span(e[2]) < min_span

C4_Witness ==
    /\ prog = "downsample" /\ dpc = "returned"
    /\ keptAt # <<>>
    /\ \E e \in eligible : e[1] \notin Range(keptAt)
    /\ \E k \in DOMAIN OutRecs : Span(OutRecs[k]) = min_span

\* C5: the size of the file written by write_dat and of the file written by
\* downsample is a multiple of the 36-byte record size at every moment, also
\* when the input of downsample has a size that is no multiple of 36.
C5_WholeRecords ==
    /\ RECORD_SIZE = 36
    /\ Len(out) % RECORD_SIZE = 0
    /\ Len(dat) % RECORD_SIZE = 0

C5_Witness ==
    /\ prog = "downsample" /\ dpc = "returned"
    /\ Len(input) % RECORD_SIZE # 0
    /\ Len(out) = 2 * RECORD_SIZE

\* Vertices of the files before file i (0-based) of the list.
RECURSIVE VerticesBefore(_)
VerticesBefore(i) == IF i = 0 THEN 0 ELSE ply_files[i] + VerticesBefore(i - 1)

\* C6: when the conversion ends, the output holds exactly one record per
\* input vertex, in file order then vertex order, and every record of the
\* file at index i has start_frame = end_frame = i * frame_step (stated for
\* a default opacity within 0..255).
C6_OneRecordPerVertex ==
    (prog = "convert" /\ cpc \in {"done", "error"} /\ default_opacity \in 0..255) =>
        /\ Len(dat) = RECORD_SIZE * VerticesBefore(Len(ply_files))
        /\ \A i \in 0..(Len(ply_files) - 1) : \A j \in 1..ply_files[i + 1] :
              LET r == RecordsOf(dat)[VerticesBefore(i) + j] IN
                /\ UnpackHH(r) = <<i * frame_step, i * frame_step>>
                /\ SubSeq(r, 5, 16) =
                     PackF(i) \o PackF(j - 1) \o PackF(0)

Clamp(v, lo, hi) == IF v < lo THEN lo ELSE IF v > hi THEN hi ELSE v

\* C7: encoding never fails on the values it packs: the conversion never
\* ends in an error, every vertex gets its 36-byte record, and a frame index
\* outside 0..65535 is written clamped into that range (stated for a default
\* opacity within 0..255).
C7_EncodeNeverFails ==
    (prog = "convert" /\ default_opacity \in 0..255) =>
        /\ cpc # "error"
        /\ cpc = "done" => Len(dat) = RECORD_SIZE * VerticesBefore(Len(ply_files))
        /\ \A k \in DOMAIN RecordsOf(dat) :
              /\ RecordsOf(dat)[k][20] = default_opacity
              /\ \A b \in 33..36 : RecordsOf(dat)[k][b] \in 0..255
              /\ \E i \in 0..(Len(ply_files) - 1) :
                    UnpackHH(RecordsOf(dat)[k]) =
                       <<Clamp(i * frame_step, 0, 65535), Clamp(i * frame_step, 0, 65535)>>

SpanPassing(rs) == SelectSeq(rs, LAMBDA r : Span(r) >= min_span)

EveryNth(rs, n) == IF n <= 1 THEN rs ELSE [k \in 1..(Len(rs) \div n) |-> rs[k * n]]

C10_EveryRecordOnce ==
    prog = "iter" =>
        /\ ipc # "start" => chunk_bytes % RECORD_SIZE = 0
        /\ Len(yielded) <= Len(InRecs)
        /\ \A k \in DOMAIN yielded : yielded[k] = InRecs[k]
        /\ ipc = "end" => yielded = InRecs

====
